---- MODULE Spec2Model ----
(***************************************************************************)
(* Model of the daab artifact cache (RawCache, src/cache/internal.rs).     *)
(*                                                                         *)
(* Builders live at addresses 1..NumBuilders; a BuilderId is the address   *)
(* of the builder behind its Rc.  The four tables of RawCache are the      *)
(* variables artifacts, dyn_states, dependents and known_builders.  Every  *)
(* public operation of the cache is one action; the nested builds that a   *)
(* get triggers are computed by the recursive operators get / build /      *)
(* resolve, which thread the cache as a record.                            *)
(***************************************************************************)
EXTENDS Naturals, Integers, FiniteSets, Sequences, TLC

\* ---- bounds ------------------------------------------------------------
NumBuilders == 3      \* addresses a builder can be allocated at
MaxDeps     == 1      \* dependency handles one builder holds / resolves
MaxDyn      == 1      \* largest dynamic state value a user writes

Builders == 1..NumBuilders
DynVals  == 0..MaxDyn

\* What the user's build function does in one top-level call:
\*   "ok"   resolves every dependency in order, propagates the first error (`?`)
\*   "fail" resolves every dependency, ignoring their errors, then returns Err
\*   "skip" resolves nothing and returns Ok
Modes == {"ok", "fail", "skip"}

VARIABLES
    builders,        \* allocated builders: address -> sequence of dependency handles it holds
    held,            \* addresses the user holds at least one strong handle (or clone) of
    artifacts,       \* RawCache.artifacts: id -> [inst, used]
    dyn_states,      \* RawCache.dyn_states: id -> value
    dependents,      \* RawCache.dependents: id -> set of ids
    known_builders,  \* RawCache.known_builders: ids with a weak reference
    rt               \* the round trip: the operations run so far and their outcomes

vars == <<builders, held, artifacts, dyn_states, dependents, known_builders, rt>>

\* ---- HashMap / HashSet helpers -----------------------------------------
Remove(f, k) == [x \in DOMAIN f \ {k} |-> f[x]]

Insert(f, k, v) == [x \in DOMAIN f \cup {k} |-> IF x = k THEN v ELSE f[x]]

Range(s) == {s[i] : i \in DOMAIN s}

EmptyMap == [x \in {} |-> 0]

\* ---- the cache as a value ----------------------------------------------
Cache == [artifacts |-> artifacts, dyn_states |-> dyn_states,
          dependents |-> dependents, known_builders |-> known_builders,
          events |-> <<>>]

new == [artifacts |-> EmptyMap, dyn_states |-> EmptyMap,
        dependents |-> EmptyMap, known_builders |-> {},
        events |-> <<>>]

Ev(e, b, a) == [ev |-> e, b |-> b, a |-> a]

\* Rc strong count > 0: the weak reference kept for id b can be upgraded.
\* An address is reused only after its allocation is freed, which needs the
\* weak count to be zero too (see New), so a weak kept under id b always
\* refers to the allocation currently at b.
upgrade_from_weak_Never(b) == FALSE

upgrade_from_weak(b) == b \in DOMAIN builders

\* mutant: a second resolve of the same dependency takes the edge out again
track_dependency_Toggles(c, user, promise) ==
    LET old == IF promise \in DOMAIN c.dependents THEN c.dependents[promise] ELSE {}
    IN  [c EXCEPT !.dependents = Insert(@, promise,
                      IF user \in old THEN old \ {user} ELSE old \cup {user}),
                  !.events = Append(@, Ev("resolve", user, promise))]

\* mutant: the entry is replaced instead of extended
track_dependency_Overwrites(c, user, promise) ==
    [c EXCEPT !.dependents = Insert(@, promise, {user}),
              !.events = Append(@, Ev("resolve", user, promise))]

\* mutant: the doctor is told, the edge is not recorded
track_dependency_Forgets(c, user, promise) ==
    [c EXCEPT !.events = Append(@, Ev("resolve", user, promise))]

track_dependency(c, user, promise) ==
    [c EXCEPT !.dependents = Insert(@, promise,
                  (IF promise \in DOMAIN @ THEN @[promise] ELSE {}) \cup {user}),
              !.events = Append(@, Ev("resolve", user, promise))]

\* Option<Bin>: the stored instance, or None
None == <<>>

\* mutant: the store is searched by the builder's value instead of its id
lookup_ByValue(c, b) ==
    LET same == {x \in DOMAIN c.artifacts \cap DOMAIN builders :
                     b \in DOMAIN builders /\ builders[x] = builders[b]}
    IN  IF same # {} THEN c.artifacts[CHOOSE x \in same : TRUE].inst ELSE None

lookup(c, b) == IF b \in DOMAIN c.artifacts THEN c.artifacts[b].inst ELSE None

lookup_ref(c, b) == IF b \in DOMAIN c.artifacts THEN c.artifacts[b].inst ELSE None

make_builder_known(c, b) ==
    [c EXCEPT !.known_builders = @ \cup {b}]

init_dyn_state == 0

\* mutant: the dynamic state is made anew each time
ensure_dyn_state_Resets(c, b) ==
    [c EXCEPT !.dyn_states = Insert(@, b, init_dyn_state),
              !.events = Append(@, Ev("init", b, 0))]

\* mutant: no dynamic state is created
ensure_dyn_state_Never(c, b) == c

ensure_dyn_state(c, b) ==
    IF b \in DOMAIN c.dyn_states THEN c
    ELSE [c EXCEPT !.dyn_states = Insert(@, b, init_dyn_state),
                   !.events = Append(@, Ev("init", b, 0))]

\* Rc::new: the allocation of a new artifact is distinct from every artifact
\* alive in the cache (stored, or referenced by a stored or pending artifact).
\* An instance is named <<b, k>>: the k-th live artifact made by builder b,
\* with k the least number whose name is not in use.
InUse(c, used) ==
    {c.artifacts[x].inst : x \in DOMAIN c.artifacts}
      \cup UNION {{e[2] : e \in c.artifacts[x].used} : x \in DOMAIN c.artifacts}
      \cup {e[2] : e \in used}

into_bin(c, b, used) ==
    LET k == CHOOSE i \in 1..(NumBuilders + 2) :
                 /\ <<b, i>> \notin InUse(c, used)
                 /\ \A j \in 1..(i - 1) : <<b, j>> \in InUse(c, used)
    IN  <<b, k>>

RECURSIVE get(_, _, _), build(_, _, _), user_build(_, _, _, _, _)

\* mutant: a resolved dependency is always built anew
resolve_Rebuilds(c, user, promise, m) == build(track_dependency(c, user, promise), promise, m)

\* Resolver::resolve: record the edge, then get the dependency.
resolve(c, user, promise, m) == get(track_dependency(c, user, promise), promise, m)

RECURSIVE Twice(_)

Twice(ds) == IF ds = <<>> THEN <<>> ELSE <<Head(ds), Head(ds)>> \o Twice(Tail(ds))

\* the handles b's build function resolves, in order; "twice" is an "ok" build
\* that resolves every dependency a second time
Resolved(b, m) ==
    CASE m[b] = "skip"  -> <<>>
      [] m[b] = "twice" -> Twice(builders[b])
      [] OTHER          -> builders[b]

\* mutant: the build function resolves its handles from the last to the first
user_build_LastFirst(c, u, ds, m, used) ==
    IF ds = <<>> THEN [c |-> c, ok |-> m[u] # "fail", used |-> used]
    ELSE LET p == ds[Len(ds)]
             rest == SubSeq(ds, 1, Len(ds) - 1)
             r == resolve(c, u, p, m)
         IN  IF r.ok
             THEN user_build(r.c, u, rest, m, used \cup {<<p, r.ret>>})
             ELSE IF m[u] # "fail"
                  THEN [c |-> r.c, ok |-> FALSE, used |-> used]
                  ELSE user_build(r.c, u, rest, m, used)

\* The body of a builder's build(): resolves the handles ds in order.
user_build(c, u, ds, m, used) ==
    IF ds = <<>> THEN [c |-> c, ok |-> m[u] # "fail", used |-> used]
    ELSE LET p == Head(ds)
             r == resolve(c, u, p, m)
         IN  IF r.ok
             THEN user_build(r.c, u, Tail(ds), m, used \cup {<<p, r.ret>>})
             ELSE IF m[u] # "fail"
                  THEN [c |-> r.c, ok |-> FALSE, used |-> used]
                  ELSE user_build(r.c, u, Tail(ds), m, used)

\* mutant: the artifact's slot is filled before the build function runs
build_CommitsEarly(c, b, m) ==
    LET c1 == ensure_dyn_state(make_builder_known(c, b), b)
        c2 == [c1 EXCEPT !.events = Append(@, Ev("call_build", b, 0))]
        inst == into_bin(c2, b, {})
        c3 == [c2 EXCEPT !.artifacts = Insert(@, b, [inst |-> inst, used |-> {}]),
                         !.events = Append(@, Ev("build", b, inst))]
        r  == user_build(c3, b, Resolved(b, m), m, {})
    IN  IF r.ok
        THEN [c |-> [r.c EXCEPT !.artifacts = Insert(@, b, [inst |-> inst, used |-> r.used])],
              ok |-> TRUE, ret |-> inst]
        ELSE [c |-> [r.c EXCEPT !.artifacts = Remove(@, b)], ok |-> FALSE, ret |-> None]

\* mutant: the doctor hears of failed builds too
build_ReportsFailure(c, b, m) ==
    LET c1 == ensure_dyn_state(make_builder_known(c, b), b)
        c2 == [c1 EXCEPT !.events = Append(@, Ev("call_build", b, 0))]
        r  == user_build(c2, b, Resolved(b, m), m, {})
        inst == into_bin(r.c, b, r.used)
    IN  IF r.ok
        THEN [c |-> [r.c EXCEPT !.artifacts = Insert(@, b, [inst |-> inst, used |-> r.used]),
                                !.events = Append(@, Ev("build", b, inst))],
              ok |-> TRUE, ret |-> inst]
        ELSE [c |-> [r.c EXCEPT !.events = Append(@, Ev("build", b, inst))],
              ok |-> FALSE, ret |-> None]

\* mutant: whatever the build returned is stored
build_CachesError(c, b, m) ==
    LET c1 == ensure_dyn_state(make_builder_known(c, b), b)
        c2 == [c1 EXCEPT !.events = Append(@, Ev("call_build", b, 0))]
        r  == user_build(c2, b, Resolved(b, m), m, {})
        inst == into_bin(r.c, b, r.used)
    IN  [c |-> [r.c EXCEPT !.artifacts = Insert(@, b, [inst |-> inst, used |-> r.used]),
                           !.events = Append(@, Ev("build", b, inst))],
         ok |-> r.ok, ret |-> IF r.ok THEN inst ELSE None]

build(c, b, m) ==
    LET c1 == ensure_dyn_state(make_builder_known(c, b), b)
        c2 == [c1 EXCEPT !.events = Append(@, Ev("call_build", b, 0))]
        r  == user_build(c2, b, Resolved(b, m), m, {})
        inst == into_bin(r.c, b, r.used)
    IN  IF r.ok
        THEN [c |-> [r.c EXCEPT !.artifacts = Insert(@, b, [inst |-> inst, used |-> r.used]),
                                !.events = Append(@, Ev("build", b, inst))],
              ok |-> TRUE, ret |-> inst]
        ELSE [c |-> r.c, ok |-> FALSE, ret |-> None]

\* mutant: get never consults the store
get_AlwaysBuilds(c, b, m) == build(c, b, m)

get(c, b, m) ==
    IF lookup(c, b) # None THEN [c |-> c, ok |-> TRUE, ret |-> lookup(c, b)]
    ELSE build(c, b, m)

\* mutant: the doctor hears of a build on a cache hit
get_ref_ReportsHit(c, b, m) ==
    IF lookup_ref(c, b) # None
    THEN [c |-> [c EXCEPT !.events = Append(@, Ev("build", b, lookup_ref(c, b)))],
          ok |-> TRUE, ret |-> lookup_ref(c, b)]
    ELSE build(c, b, m)

get_ref(c, b, m) ==
    IF lookup_ref(c, b) # None THEN [c |-> c, ok |-> TRUE, ret |-> lookup_ref(c, b)]
    ELSE build(c, b, m)

get_cloned(c, b, m) == get_ref(c, b, m)

RECURSIVE invalidate_any(_, _), invalidate_each(_, _)

\* mutant: the dependents are forgotten, not invalidated
invalidate_any_NoCascade(c, b) ==
    [c EXCEPT !.dependents = Remove(@, b), !.artifacts = Remove(@, b)]

\* mutant: the doctor hears of every builder the cascade reaches
invalidate_any_Reports(c, b) ==
    LET c1 == IF b \in DOMAIN c.dependents
              THEN invalidate_each([c EXCEPT !.dependents = Remove(@, b)], c.dependents[b])
              ELSE c
    IN  [c1 EXCEPT !.artifacts = Remove(@, b),
                   !.events = Append(@, Ev("invalidate", b, 0))]

invalidate_any(c, b) ==
    LET c1 == IF b \in DOMAIN c.dependents
              THEN invalidate_each([c EXCEPT !.dependents = Remove(@, b)], c.dependents[b])
              ELSE c
    IN  [c1 EXCEPT !.artifacts = Remove(@, b)]

\* `for dep in set { self.invalidate_any(&dep) }`
invalidate_each(c, set) ==
    IF set = {} THEN c
    ELSE LET dep == CHOOSE x \in set : TRUE
         IN  invalidate_each(invalidate_any(c, dep), set \ {dep})

invalidate_dependents(c, b) ==
    IF b \in DOMAIN c.dependents
    THEN invalidate_each([c EXCEPT !.dependents = Remove(@, b)], c.dependents[b])
    ELSE c

\* mutant: only a stored artifact keeps the weak reference
cleanup_unused_weak_refs_IgnoresDynState(c) ==
    [c EXCEPT !.known_builders = @ \cap DOMAIN c.artifacts]

cleanup_unused_weak_refs(c) ==
    LET unused_builder_ids == {b \in c.known_builders :
            ~(b \in DOMAIN c.artifacts \/ b \in DOMAIN c.dyn_states)}
    IN  [c EXCEPT !.known_builders = @ \ unused_builder_ids]

\* mutant: the dynamic state goes with the artifact
invalidate_DropsDynState(c, b) ==
    cleanup_unused_weak_refs(
        [invalidate_any(c, b) EXCEPT !.dyn_states = Remove(@, b),
                                     !.events = Append(@, Ev("invalidate", b, 0))])

\* mutant: the invalidated artifact is built again at once
invalidate_Eager(c, b) ==
    LET c2 == cleanup_unused_weak_refs(
                  [invalidate_any(c, b) EXCEPT !.events = Append(@, Ev("invalidate", b, 0))])
    IN  IF b \in DOMAIN c.artifacts THEN get(c2, b, [x \in Builders |-> "ok"]).c ELSE c2

invalidate(c, b) ==
    cleanup_unused_weak_refs(
        [invalidate_any(c, b) EXCEPT !.events = Append(@, Ev("invalidate", b, 0))])

\* mutant: the dependents survive a mutable lookup
lookup_mut_NoKill(c, b) ==
    [c |-> c, ret |-> IF b \in DOMAIN c.artifacts THEN c.artifacts[b].inst ELSE None]

\* lookup_mut changes the cache and returns Option<&mut Artifact>
lookup_mut(c, b) ==
    LET c1 == invalidate_dependents(c, b)
    IN  [c |-> c1, ret |-> IF b \in DOMAIN c1.artifacts THEN c1.artifacts[b].inst ELSE None]

get_mut(c, b, m) ==
    LET l1 == lookup_mut(c, b)
    IN  IF l1.ret # None
        THEN LET l2 == lookup_mut(l1.c, b) IN [c |-> l2.c, ok |-> TRUE, ret |-> l2.ret]
        ELSE build(l1.c, b, m)

\* mutant: the shared borrow invalidates like the mutable one
dyn_state_Invalidates(c, b) == ensure_dyn_state(invalidate(c, b), b)

dyn_state(c, b) == ensure_dyn_state(c, b)

\* mutant: the mutable borrow is handed out without invalidation
dyn_state_mut_NoInvalidate(c, b) == ensure_dyn_state(c, b)

dyn_state_mut(c, b) == ensure_dyn_state(invalidate(c, b), b)

\* Cache::set_dyn_state: replaces the dynamic state, invalidating like dyn_state_mut
set_dyn_state(c, b, v) ==
    [invalidate(c, b) EXCEPT !.dyn_states = Insert(@, b, v)]

\* mutant: the dynamic state survives the purge
purge_KeepsDynState(c, b) ==
    invalidate([c EXCEPT !.known_builders = @ \ {b},
                         !.artifacts = Remove(@, b)], b)

\* mutant: the builders built from the purged one are left alone
purge_NoCascade(c, b) ==
    [c EXCEPT !.known_builders = @ \ {b},
              !.artifacts = Remove(@, b),
              !.dyn_states = Remove(@, b),
              !.events = Append(@, Ev("invalidate", b, 0))]

purge(c, b) ==
    invalidate([c EXCEPT !.known_builders = @ \ {b},
                         !.artifacts = Remove(@, b),
                         !.dyn_states = Remove(@, b)], b)

\* mutant: the dependency edges survive
clear_artifacts_KeepsDependents(c) ==
    cleanup_unused_weak_refs([c EXCEPT !.artifacts = EmptyMap])

\* mutant: the builders are forgotten with their artifacts
clear_artifacts_ForgetsBuilders(c) ==
    [c EXCEPT !.artifacts = EmptyMap, !.dependents = EmptyMap,
              !.dyn_states = EmptyMap, !.known_builders = {}]

clear_artifacts(c) ==
    cleanup_unused_weak_refs([c EXCEPT !.artifacts = EmptyMap, !.dependents = EmptyMap])

\* mutant: the dynamic states are kept
clear_all_KeepsDynStates(c) ==
    [c EXCEPT !.artifacts = EmptyMap,
              !.dependents = EmptyMap, !.known_builders = {},
              !.events = Append(@, Ev("clear", 0, 0))]

\* mutant: the weak references are kept
clear_all_KeepsKnown(c) ==
    [c EXCEPT !.artifacts = EmptyMap, !.dyn_states = EmptyMap,
              !.dependents = EmptyMap,
              !.events = Append(@, Ev("clear", 0, 0))]

clear_all(c) ==
    [c EXCEPT !.artifacts = EmptyMap, !.dyn_states = EmptyMap,
              !.dependents = EmptyMap, !.known_builders = {},
              !.events = Append(@, Ev("clear", 0, 0))]

RECURSIVE collect(_, _)

\* mutant: the weak reference of a collected builder is kept
collect_KeepsWeak(c, ids) ==
    IF ids = {} THEN c
    ELSE LET bid == CHOOSE x \in ids : TRUE
             c1  == invalidate_any(c, bid)
         IN  collect([c1 EXCEPT !.dyn_states = Remove(@, bid)], ids \ {bid})

\* the loop of garbage_collection over unreachable_builder_ids
collect(c, ids) ==
    IF ids = {} THEN c
    ELSE LET bid == CHOOSE x \in ids : TRUE
             c1  == invalidate_any(c, bid)
         IN  collect([c1 EXCEPT !.dyn_states = Remove(@, bid),
                                !.known_builders = @ \ {bid}], ids \ {bid})

\* mutant: every tracked builder is taken for unreachable
unreachable_builder_ids_All(c) == c.known_builders

unreachable_builder_ids(c) == {b \in c.known_builders : ~upgrade_from_weak(b)}

\* mutant: every tracked builder is taken for reachable
garbage_collection_Noop(c) == c

garbage_collection(c) == collect(c, unreachable_builder_ids(c))

number_of_known_builders(c) == Cardinality(c.known_builders)

\* ---- handle identity -----------------------------------------------------
\* A handle over the builder allocated at ptr; its id is that address.
ArtifactPromise(ptr) == [builder |-> ptr, id |-> ptr]

\* Clone for a handle: the same Rc allocation, the id copied
clone(ap) == [builder |-> ap.builder, id |-> ap.id]

\* BuilderEntry::new keeps the type-erased Rc of the handle
BuilderEntry_new(ap) == [builder |-> ap.builder]

\* BuilderEntry::id: the address the Rc points to
BuilderEntry_id(e) == e.builder

\* derive(Hash) on BuilderId feeds the pointer to the hasher
BuilderId_hash(i, state) == Append(state, i)

BuilderEntry_hash(e, state) == BuilderId_hash(BuilderEntry_id(e), state)

\* mutant: entries are compared by the value of the builder behind the Rc
BuilderEntry_eq_ByValue(e1, e2) == builders[e1.builder] = builders[e2.builder]

BuilderEntry_eq(e1, e2) == BuilderEntry_id(e1) = BuilderEntry_id(e2)

\* ---- handles (Rc strong counts) ------------------------------------------
RECURSIVE Reach(_, _, _)

\* builders reachable from S through the handles stored in builders
Reach(bs, S, n) ==
    IF n = 0 THEN S
    ELSE Reach(bs, S \cup UNION {Range(bs[b]) : b \in S \cap DOMAIN bs}, n - 1)

\* strong count > 0: held by the user or by a field of a live builder
Live(bs, h) == Reach(bs, h, NumBuilders)

DepSeqs(S) == {<<>>} \cup UNION {[1..n -> S] : n \in 1..MaxDeps}

\* what the builders reached from b do in this call; the others are not run
ModesFor(b) ==
    LET R == Reach(builders, {b}, NumBuilders) \ DOMAIN artifacts
    IN  {[x \in Builders |-> IF x \in R THEN f[x] ELSE "ok"] : f \in [R -> Modes]}

Commit(c) ==
    /\ artifacts' = c.artifacts
    /\ dyn_states' = c.dyn_states
    /\ dependents' = c.dependents
    /\ known_builders' = c.known_builders

\* no round trip is being run
Idle == [phase |-> "idle", script |-> <<>>, log |-> <<>>, pos |-> 0, last |-> <<>>]

Init ==
    /\ builders = EmptyMap
    /\ held = {}
    /\ artifacts = new.artifacts
    /\ dyn_states = new.dyn_states
    /\ dependents = new.dependents
    /\ known_builders = new.known_builders
    /\ rt = Idle

\* Blueprint::new: a fresh allocation; ds are the (cloned) handles stored in
\* the builder.  The address is free only if no weak reference to it is left.
Blueprint(b, ds) ==
    /\ b \notin DOMAIN builders
    /\ b \notin known_builders
    /\ Range(ds) \subseteq held
    /\ builders' = Insert(builders, b, ds)
    /\ held' = held \cup {b}
    /\ UNCHANGED <<artifacts, dyn_states, dependents, known_builders, rt>>

\* the user drops the last of their handles to b
Drop(b) ==
    /\ b \in held
    /\ held' = held \ {b}
    /\ builders' = [x \in Live(builders, held') |-> builders[x]]
    /\ UNCHANGED <<artifacts, dyn_states, dependents, known_builders, rt>>

\* ---- public cache operations -------------------------------------------
Get(b, m) ==
    /\ b \in held
    /\ LET r == get(Cache, b, m)
       IN  Commit(r.c)
    /\ UNCHANGED <<builders, held, rt>>

GetRef(b, m) ==
    /\ b \in held
    /\ LET r == get_ref(Cache, b, m)
       IN  Commit(r.c)
    /\ UNCHANGED <<builders, held, rt>>

GetCloned(b, m) ==
    /\ b \in held
    /\ LET r == get_cloned(Cache, b, m)
       IN  Commit(r.c)
    /\ UNCHANGED <<builders, held, rt>>

GetMut(b, m) ==
    /\ b \in held
    /\ LET r == get_mut(Cache, b, m)
       IN  Commit(r.c)
    /\ UNCHANGED <<builders, held, rt>>

DynState(b) ==
    /\ b \in held
    /\ LET c == dyn_state(Cache, b)
       IN  Commit(c)
    /\ UNCHANGED <<builders, held, rt>>

\* the caller writes v through the returned &mut
DynStateMut(b, v) ==
    /\ b \in held
    /\ LET c0 == dyn_state_mut(Cache, b)
           c  == [c0 EXCEPT !.dyn_states[b] = v]
       IN  Commit(c)
    /\ UNCHANGED <<builders, held, rt>>

SetDynState(b, v) ==
    /\ b \in held
    /\ LET c == set_dyn_state(Cache, b, v)
       IN  Commit(c)
    /\ UNCHANGED <<builders, held, rt>>

\* get_dyn_state takes &self: the cache it leaves is the one it got; ret is the
\* stored state, -1 for None
get_dyn_state(c, b) ==
    [c |-> c, ret |-> IF b \in DOMAIN c.dyn_states THEN c.dyn_states[b] ELSE -1]

GetDynState(b) ==
    /\ b \in held
    /\ LET r == get_dyn_state(Cache, b)
       IN  r.ret \in DynVals \cup {-1} /\ Commit(r.c)
    /\ UNCHANGED <<builders, held, rt>>

Invalidate(b) ==
    /\ b \in held
    /\ LET c == invalidate(Cache, b)
       IN  Commit(c)
    /\ UNCHANGED <<builders, held, rt>>

Purge(b) ==
    /\ b \in held
    /\ LET c == purge(Cache, b)
       IN  Commit(c)
    /\ UNCHANGED <<builders, held, rt>>

ClearArtifacts ==
    /\ LET c == clear_artifacts(Cache)
       IN  Commit(c)
    /\ UNCHANGED <<builders, held, rt>>

ClearAll ==
    /\ LET c == clear_all(Cache)
       IN  Commit(c)
    /\ UNCHANGED <<builders, held, rt>>

GarbageCollection ==
    /\ LET c == garbage_collection(Cache)
       IN  Commit(c)
    /\ UNCHANGED <<builders, held, rt>>

Next ==
    \/ \E b \in Builders : \E ds \in DepSeqs(held \cap 1..(b - 1)) : Blueprint(b, ds)
    \/ \E b \in Builders : Drop(b)
    \/ \E b \in Builders : \E m \in ModesFor(b) : Get(b, m)
    \/ \E b \in Builders : \E m \in ModesFor(b) : GetRef(b, m)
    \/ \E b \in Builders : \E m \in ModesFor(b) : GetCloned(b, m)
    \/ \E b \in Builders : \E m \in ModesFor(b) : GetMut(b, m)
    \/ \E b \in Builders : DynState(b)
    \/ \E b \in Builders : \E v \in DynVals : DynStateMut(b, v)
    \/ \E b \in Builders : \E v \in DynVals : SetDynState(b, v)
    \/ \E b \in Builders : GetDynState(b)
    \/ \E b \in Builders : Invalidate(b)
    \/ \E b \in Builders : Purge(b)
    \/ ClearArtifacts
    \/ ClearAll
    \/ GarbageCollection

Spec == Init /\ [][Next]_vars

TypeOK ==
    /\ DOMAIN builders \subseteq Builders
    /\ DOMAIN artifacts \subseteq Builders
    /\ known_builders \subseteq Builders

\* ---- vocabulary of the properties --------------------------------------
HasEv(c, e, b) == \E i \in DOMAIN c.events : c.events[i].ev = e /\ c.events[i].b = b

\* the builders whose artifacts u's stored artifact was built from
UsedBy(c, u) == {e[1] : e \in c.artifacts[u].used}

RECURSIVE DependsOn(_, _, _, _)

\* u's stored artifact was built by resolving p, directly or through the
\* stored artifacts of the builders it resolved
DependsOn(c, u, p, n) ==
    /\ u \in DOMAIN c.artifacts
    /\ \/ p \in UsedBy(c, u)
       \/ n > 0 /\ \E x \in UsedBy(c, u) : DependsOn(c, x, p, n - 1)

TransitiveDependents(c, p) == {u \in DOMAIN c.artifacts : DependsOn(c, u, p, NumBuilders)}

GetKinds == {"get", "get_ref", "get_cloned"}

GetFamily(kind, c, b, m) ==
    CASE kind = "get" -> get(c, b, m)
      [] kind = "get_ref" -> get_ref(c, b, m)
      [] kind = "get_cloned" -> get_cloned(c, b, m)
      [] kind = "get_mut" -> get_mut(c, b, m)

\* what happens to a stored artifact x in a call that ends in cache c
Rebuilt(c, x) == HasEv(c, "call_build", x)

C2_CascadeComplete ==
    \A p \in held :
        LET c == invalidate(Cache, p)
        IN  /\ p \notin DOMAIN c.artifacts
            /\ \A u \in TransitiveDependents(Cache, p) : u \notin DOMAIN c.artifacts

\* p is stored, u was built from p, and w from u but not from p directly
C2_Witness ==
    \E p \in held \cap DOMAIN artifacts : \E u, w \in DOMAIN artifacts :
        /\ p \in UsedBy(Cache, u)
        /\ u \in UsedBy(Cache, w)
        /\ p \notin UsedBy(Cache, w)

\* ---- C3 ------------------------------------------------------------------
\* C3: invalidate(p) leaves the stored artifact of every builder that never
\* resolved p, directly or transitively, as it was.  A builder resolves only
\* handles it holds, so a live builder from which p cannot be reached through
\* stored handles has never resolved p.
C3_CascadeConfined ==
    \A p \in held :
        LET c == invalidate(Cache, p)
        IN  \A u \in DOMAIN builders \cap DOMAIN artifacts :
                p \notin Reach(builders, {u}, NumBuilders) =>
                    /\ u \in DOMAIN c.artifacts
                    /\ c.artifacts[u] = artifacts[u]
                    /\ ~Rebuilt(c, u)

\* ---- C4 ------------------------------------------------------------------
\* C4: get_mut(p) with p's artifact stored returns that same instance without
\* building p, and leaves no artifact of a direct or transitive dependent of p;
\* p is built only if its artifact was absent.
C4_GetMutKillsDependents ==
    \A p \in held : \A m \in ModesFor(p) :
        LET r == get_mut(Cache, p, m)
        IN  /\ p \in DOMAIN artifacts =>
                /\ r.ok
                /\ r.ret = artifacts[p].inst
                /\ p \in DOMAIN r.c.artifacts
                /\ r.c.artifacts[p] = artifacts[p]
                /\ \A u \in TransitiveDependents(Cache, p) : u \notin DOMAIN r.c.artifacts
            /\ Rebuilt(r.c, p) => p \notin DOMAIN artifacts

\* p is stored and has a stored direct and a stored indirect dependent
C4_Witness ==
    \E p \in held \cap DOMAIN artifacts : \E u, w \in TransitiveDependents(Cache, p) :
        /\ p \in UsedBy(Cache, u)
        /\ p \notin UsedBy(Cache, w)
        /\ get_mut(Cache, p, [x \in Builders |-> "ok"]).ok

\* ---- C5 ------------------------------------------------------------------
\* the same behaviour of every build function the call reaches
UniformModes == {[x \in Builders |-> md] : md \in Modes}

Reset(c) == [c EXCEPT !.events = <<>>]

\* C5: a build that returns an error inserts no artifact; the error reaches the
\* get-family caller, and the next get-family call on the handle builds again.
C5_FailedBuildNotCached ==
    \A h \in held : \A kind \in GetKinds \cup {"get_mut"} : \A m \in ModesFor(h) :
        LET r == GetFamily(kind, Cache, h, m)
        IN  /\ \A x \in Builders :
                   (HasEv(r.c, "call_build", x) /\ ~HasEv(r.c, "build", x)) =>
                       x \notin DOMAIN r.c.artifacts
            /\ ~r.ok =>
                   /\ h \notin DOMAIN r.c.artifacts
                   /\ r.ret = None
                   /\ \A kind2 \in GetKinds \cup {"get_mut"} : \A m2 \in UniformModes :
                          Rebuilt(GetFamily(kind2, Reset(r.c), h, m2).c, h)

\* a get that fails because a dependency's build failed
C5_Witness ==
    \E h \in held : \E m \in ModesFor(h) : \E d \in Range(builders[h]) :
        /\ m[h] = "ok" /\ m[d] = "fail"
        /\ ~get(Cache, h, m).ok

\* ---- C6 ------------------------------------------------------------------
Touched(c) == {x \in Builders : HasEv(c, "call_build", x)}

HasResolve(c, u, p) ==
    \E i \in DOMAIN c.events :
        c.events[i].ev = "resolve" /\ c.events[i].b = u /\ c.events[i].a = p

C7_KnownBuilders ==
    (DOMAIN artifacts \cup DOMAIN dyn_states) \subseteq known_builders

\* ---- C8 ------------------------------------------------------------------
Orphans == {b \in known_builders : b \notin DOMAIN builders}

\* C8: garbage_collection lowers number_of_known_builders by exactly the number
\* of tracked builders without a strong handle, and a get on a handle
\* constructed afterwards builds and yields a new artifact.
C8_GcCount ==
    LET c == garbage_collection(Cache)
    IN  /\ number_of_known_builders(c) =
               number_of_known_builders(Cache) - Cardinality(Orphans)
        /\ \A b \in Builders \ (DOMAIN builders \cup c.known_builders) :
               LET r == get(c, b, [x \in Builders |-> "skip"])
               IN  r.ok /\ HasEv(r.c, "call_build", b) /\ HasEv(r.c, "build", b)

\* a built builder whose handles were all dropped, next to a tracked live one
C8_Witness ==
    /\ Orphans \cap DOMAIN artifacts # {}
    /\ known_builders \ Orphans # {}

\* ---- C9 ------------------------------------------------------------------
\* C9: garbage_collection removes neither the known_builders entry nor the
\* dynamic state of a builder that still has a strong handle.
C9_GcSparesLive ==
    LET c == garbage_collection(Cache)
    IN  \A b \in DOMAIN builders :
            /\ b \in known_builders => b \in c.known_builders
            /\ b \in DOMAIN dyn_states =>
                   b \in DOMAIN c.dyn_states /\ c.dyn_states[b] = dyn_states[b]

\* an orphan that had resolved a live, tracked builder with a dynamic state
C9_Witness ==
    \E o \in Orphans : \E b \in DOMAIN builders \cap known_builders \cap DOMAIN dyn_states :
        /\ b \in DOMAIN dependents
        /\ o \in dependents[b]

\* ---- C10 -----------------------------------------------------------------
\* C10: after garbage_collection no builder without a strong handle has an
\* entry in artifacts, dyn_states or known_builders.
C10_OrphansReclaimed ==
    LET c == garbage_collection(Cache)
    IN  \A b \in Builders \ DOMAIN builders :
            /\ b \notin DOMAIN c.artifacts
            /\ b \notin DOMAIN c.dyn_states
            /\ b \notin c.known_builders

\* ---- C11 -----------------------------------------------------------------
\* C11: invalidate(p) leaves the dyn_states table as it was, for p and for every
\* other builder, and p keeps its known_builders entry if it had one.
C11_InvalidateKeepsDynState ==
    \A p \in held :
        LET c == invalidate(Cache, p)
        IN  /\ c.dyn_states = dyn_states
            /\ p \in known_builders => p \in c.known_builders

\* p is stored and tracked, and a stored dependent of p has a written dynamic state
C11_Witness ==
    \E p \in held \cap DOMAIN artifacts \cap known_builders :
        \E u \in TransitiveDependents(Cache, p) :
            /\ p \in DOMAIN dyn_states
            /\ u \in DOMAIN dyn_states
            /\ dyn_states[u] # init_dyn_state

\* ---- C12 -----------------------------------------------------------------
\* the cache after dyn_state_mut(h) and after set_dyn_state(h, v), for each v
AfterDynWrite(h) ==
    {dyn_state_mut(Cache, h)} \cup {set_dyn_state(Cache, h, v) : v \in DynVals}

\* C12: after dyn_state_mut(h) or set_dyn_state(h, v), h has a dynamic state, no
\* artifact is stored for h or for a direct or transitive dependent of h, and
\* the next get-family call on h invokes h's build.
C12_DynWriteInvalidates ==
    \A h \in held : \A c \in AfterDynWrite(h) :
        /\ h \in DOMAIN c.dyn_states
        /\ h \notin DOMAIN c.artifacts
        /\ \A u \in TransitiveDependents(Cache, h) : u \notin DOMAIN c.artifacts
        /\ \A kind \in GetKinds \cup {"get_mut"} : \A m \in UniformModes :
               Rebuilt(GetFamily(kind, Reset(c), h, m).c, h)

\* h is stored with a stored direct and a stored indirect dependent
C12_Witness ==
    \E h \in held \cap DOMAIN artifacts : \E u, w \in DOMAIN artifacts :
        /\ h \in DOMAIN dyn_states
        /\ h \in UsedBy(Cache, u)
        /\ u \in UsedBy(Cache, w)
        /\ dyn_state_mut(Cache, h).artifacts # artifacts

\* ---- C13 -----------------------------------------------------------------
CountEv(c, e, b) ==
    Cardinality({i \in DOMAIN c.events : c.events[i].ev = e /\ c.events[i].b = b})

\* build functions that do not fail
OkModes == {m \in UniformModes : m[1] # "fail"}

\* C13: two independently constructed handles that are both alive have different
\* ids (a # b), also over structurally identical builders; get on one and then
\* on the other invokes the build of each that had no artifact exactly once, and
\* returns two distinct artifact instances.
C13_IdentityDistinct ==
    \A a, b \in held : \A m \in OkModes :
        a # b =>
            LET r1 == get(Cache, a, m)
                r2 == get(r1.c, b, m)
            IN  /\ r1.ok /\ r2.ok
                /\ r1.ret # r2.ret
                /\ r2.c.artifacts[a].inst = r1.ret
                /\ r2.c.artifacts[b].inst = r2.ret
                /\ a \notin DOMAIN artifacts => CountEv(r2.c, "call_build", a) = 1
                /\ b \notin DOMAIN artifacts => CountEv(r2.c, "call_build", b) = 1

\* two live handles over structurally identical builders with a dependency,
\* neither with an artifact
C13_Witness ==
    \E a, b \in held \ DOMAIN artifacts :
        /\ a # b
        /\ builders[a] = builders[b]
        /\ builders[a] # <<>>

\* ---- C14 -----------------------------------------------------------------
\* the instance of p that u's stored artifact holds
Held(c, u, p) == {e[2] : e \in {x \in c.artifacts[u].used : x[1] = p}}

\* C14: when two distinct builders n1 and n2 without artifacts both resolve the
\* same leaf, get(n1) and get(n2) invoke the leaf's build once if the leaf had no
\* artifact and not at all otherwise, both artifacts hold the one stored leaf
\* instance, and the two results are distinct instances.
C14_DiamondSharing ==
    \A n1, n2 \in held \ DOMAIN artifacts :
        \A leaf \in Range(builders[n1]) \cap Range(builders[n2]) :
            n1 # n2 =>
                LET m  == [x \in Builders |-> "ok"]
                    r1 == get(Cache, n1, m)
                    r2 == get(r1.c, n2, m)
                IN  /\ r1.ok /\ r2.ok
                    /\ r1.ret # r2.ret
                    /\ CountEv(r2.c, "call_build", leaf) =
                           (IF leaf \in DOMAIN artifacts THEN 0 ELSE 1)
                    /\ Held(r2.c, n1, leaf) = {r2.c.artifacts[leaf].inst}
                    /\ Held(r2.c, n2, leaf) = {r2.c.artifacts[leaf].inst}
                    /\ {n1, n2} \subseteq r2.c.dependents[leaf]

\* two unbuilt nodes over one unbuilt leaf
C14_Witness ==
    \E n1, n2 \in held \ DOMAIN artifacts :
        \E leaf \in (Range(builders[n1]) \cap Range(builders[n2])) \ DOMAIN artifacts :
            n1 # n2

\* ---- C15 -----------------------------------------------------------------
\* C15: the entry made from a handle and the one made from its clone have the
\* handle's id, compare equal and hash like that id; the entries of two
\* independently constructed live handles have different ids and compare
\* unequal; equality and hash of entries are those of their ids.
C15_HandleIdentity ==
    \A a, b \in DOMAIN builders :
        LET h  == ArtifactPromise(a)
            e1 == BuilderEntry_new(h)
            e2 == BuilderEntry_new(clone(h))
            e3 == BuilderEntry_new(ArtifactPromise(b))
        IN  /\ BuilderEntry_id(e1) = h.id
            /\ BuilderEntry_id(e2) = h.id
            /\ BuilderEntry_eq(e1, e2)
            /\ BuilderEntry_hash(e1, <<>>) = BuilderId_hash(h.id, <<>>)
            /\ BuilderEntry_hash(e2, <<>>) = BuilderId_hash(h.id, <<>>)
            /\ a # b => /\ BuilderEntry_id(e1) # BuilderEntry_id(e3)
                        /\ ~BuilderEntry_eq(e1, e3)
            /\ BuilderEntry_eq(e1, e3) <=> (BuilderEntry_id(e1) = BuilderEntry_id(e3))
            /\ BuilderEntry_eq(e1, e3) =>
                   BuilderEntry_hash(e1, <<>>) = BuilderEntry_hash(e3, <<>>)

\* two live, structurally identical builders, one of them alive only through
\* the handle another builder stores
C15_Witness ==
    \E a \in DOMAIN builders \ held : \E b \in held :
        builders[a] = builders[b]

\* ---- C16 -----------------------------------------------------------------
\* C16: after purge(h), h's id is a key of none of artifacts, dyn_states,
\* known_builders and dependents, no direct or transitive dependent of h has an
\* artifact, and every other builder's dynamic state is as before.
C16_Purge ==
    \A h \in held :
        LET c == purge(Cache, h)
        IN  /\ h \notin DOMAIN c.artifacts
            /\ h \notin DOMAIN c.dyn_states
            /\ h \notin c.known_builders
            /\ h \notin DOMAIN c.dependents
            /\ \A u \in TransitiveDependents(Cache, h) : u \notin DOMAIN c.artifacts
            /\ c.dyn_states = Remove(dyn_states, h)

\* h has all four entries, and a stored dependent with a written dynamic state
C16_Witness ==
    \E h \in held \cap DOMAIN artifacts \cap DOMAIN dyn_states \cap known_builders :
        /\ h \in DOMAIN dependents
        /\ \E u \in TransitiveDependents(Cache, h) :
               u \in DOMAIN dyn_states /\ dyn_states[u] = MaxDyn

C18_ClearAll ==
    LET c == clear_all(Cache)
    IN  /\ DOMAIN c.artifacts = {}
        /\ DOMAIN c.dyn_states = {}
        /\ DOMAIN c.dependents = {}
        /\ c.known_builders = {}
        /\ number_of_known_builders(c) = 0
        /\ \A h \in held : \A m \in UniformModes :
               LET r == get(Reset(c), h, m)
               IN  HasEv(r.c, "init", h) /\ Rebuilt(r.c, h)

\* every table has an entry, one of them of a builder without strong handle
C18_Witness ==
    /\ held \cap DOMAIN artifacts # {}
    /\ DOMAIN dyn_states # {}
    /\ DOMAIN dependents # {}
    /\ known_builders \ DOMAIN builders # {}

\* ---- C19 -----------------------------------------------------------------
\* The round trip: a sequence of cache operations over live handles is run on
\* an empty cache, then clear_all, then the same sequence again.
MaxOps == 3

\* the builders the sequence works on: every address allocated and held
Graphs ==
    {g \in [Builders -> DepSeqs(Builders)] :
        \A b \in Builders : Range(g[b]) \subseteq 1..(b - 1)}

\* one cache operation of the sequence; m is the build behaviour, v the value written
ReplayOps ==
    {[op |-> "get", b |-> b, m |-> md, v |-> 0] : b \in Builders, md \in Modes}
      \cup {[op |-> k, b |-> b, m |-> "ok", v |-> 0] :
                k \in {"get_mut", "invalidate", "purge"}, b \in Builders}
      \cup {[op |-> "dyn_state_mut", b |-> b, m |-> "ok", v |-> v] :
                b \in Builders, v \in DynVals}
      \cup {[op |-> "clear_artifacts", b |-> 1, m |-> "ok", v |-> 0]}

Done(c) == [c |-> c, ok |-> TRUE, ret |-> None]

Apply(c, o) ==
    CASE o.op = "get" -> get(c, o.b, [x \in Builders |-> o.m])
      [] o.op = "get_mut" -> get_mut(c, o.b, [x \in Builders |-> o.m])
      [] o.op = "invalidate" -> Done(invalidate(c, o.b))
      [] o.op = "purge" -> Done(purge(c, o.b))
      [] o.op = "dyn_state_mut" ->
             Done([dyn_state_mut(c, o.b) EXCEPT !.dyn_states[o.b] = o.v])
      [] o.op = "clear_artifacts" -> Done(clear_artifacts(c))

RECURSIVE Val(_, _)

\* the value of b's stored artifact: a deterministic build computes it from the
\* builder, its dynamic state and the values of the artifacts it resolved
Val(c, b) ==
    [builder |-> <<b, builders[b]>>,
     state   |-> c.dyn_states[b],
     of      |-> {Val(c, p) : p \in UsedBy(c, b) \cap DOMAIN c.artifacts}]

Built(c) ==
    LET e == SelectSeq(c.events, LAMBDA x : x.ev = "call_build")
    IN  [i \in DOMAIN e |-> e[i].b]

\* what the caller of operation o can observe of its result r
Outcome(r, o) ==
    [ok    |-> r.ok,
     val   |-> IF r.ret = None THEN {} ELSE {Val(r.c, o.b)},
     built |-> Built(r.c),
     view  |-> [b \in DOMAIN r.c.artifacts |-> Val(r.c, b)],
     dyn   |-> r.c.dyn_states]

InitReplay ==
    /\ builders \in Graphs
    /\ held = Builders
    /\ artifacts = new.artifacts
    /\ dyn_states = new.dyn_states
    /\ dependents = new.dependents
    /\ known_builders = new.known_builders
    /\ rt = [Idle EXCEPT !.phase = "first"]

FirstRun(o) ==
    /\ rt.phase = "first"
    /\ Len(rt.script) < MaxOps
    /\ LET r == Apply(Cache, o)
       IN  /\ Commit(r.c)
           /\ rt' = [rt EXCEPT !.script = Append(@, o), !.log = Append(@, Outcome(r, o))]
    /\ UNCHANGED <<builders, held>>

ReplayClearAll ==
    /\ rt.phase = "first"
    /\ rt.script # <<>>
    /\ Commit(clear_all(Cache))
    /\ rt' = [rt EXCEPT !.phase = "replay"]
    /\ UNCHANGED <<builders, held>>

Replay ==
    /\ rt.phase = "replay"
    /\ rt.pos < Len(rt.script)
    /\ LET o == rt.script[rt.pos + 1]
           r == Apply(Cache, o)
       IN  /\ Commit(r.c)
           /\ rt' = [rt EXCEPT !.pos = @ + 1, !.last = Outcome(r, o)]
    /\ UNCHANGED <<builders, held>>

NextReplay ==
    \/ \E o \in ReplayOps : FirstRun(o)
    \/ ReplayClearAll
    \/ Replay

SpecReplay == InitReplay /\ [][NextReplay]_vars

\* C19: for every sequence of cache operations over live handles, run on an
\* empty cache, then clear_all, then run again: each replayed operation has the
\* outcome it had in the first run (same success, equal artifact values, equal
\* dynamic states) and invokes the same builds, so every artifact the first run
\* built is built again by the replay.
C19_RoundTrip ==
    (rt.phase = "replay" /\ rt.pos >= 1) =>
        /\ rt.last = rt.log[rt.pos]
        /\ (rt.pos = 1 /\ rt.script[1].op \in {"get", "get_mut"}) =>
               rt.script[1].b \in Range(rt.last.built)

\* the replay has finished and its last operation returned an artifact that was
\* built from a dependency under a written dynamic state
C19_Witness ==
    /\ rt.phase = "replay"
    /\ rt.pos = MaxOps
    /\ \E v \in rt.last.val : v.state # init_dyn_state /\ v.of # {}
    /\ rt.last.built # <<>>

\* ---- C20 -----------------------------------------------------------------
CountResolve(c, u, p) ==
    Cardinality({i \in DOMAIN c.events :
        c.events[i].ev = "resolve" /\ c.events[i].b = u /\ c.events[i].a = p})

\* the build functions of m, with the succeeding ones resolving twice
Again(m) == [x \in Builders |-> IF m[x] = "ok" THEN "twice" ELSE m[x]]

\* C20: when a build of u resolves the dependency p two or more times, u is a
\* member of dependents[p] afterwards, and the four tables and the result are
\* those of the same call with p resolved once.
C20_IdempotentResolve ==
    \A h \in held : \A m \in ModesFor(h) :
        LET r2 == get(Cache, h, Again(m))
            r1 == get(Cache, h, m)
        IN  /\ \A u, p \in Builders :
                   CountResolve(r2.c, u, p) >= 2 =>
                       p \in DOMAIN r2.c.dependents /\ u \in r2.c.dependents[p]
            /\ r2.ok = r1.ok
            /\ r2.ret = r1.ret
            /\ r2.c.artifacts = r1.c.artifacts
            /\ r2.c.dyn_states = r1.c.dyn_states
            /\ r2.c.dependents = r1.c.dependents
            /\ r2.c.known_builders = r1.c.known_builders

\* an unbuilt builder whose build resolves its dependency twice and succeeds
C20_Witness ==
    \E h \in held \ DOMAIN artifacts : \E m \in ModesFor(h) : \E p \in Range(builders[h]) :
        LET r == get(Cache, h, Again(m))
        IN  /\ m[h] = "ok"
            /\ r.ok
            /\ CountResolve(r.c, h, p) = 2

\* ---- C21 -----------------------------------------------------------------
\* the addresses the next Blueprint::new can return
FreeIds == Builders \ (DOMAIN builders \cup known_builders)

\* C21: get_dyn_state(h) changes no table and does not call init_dyn_state; it
\* returns None exactly when dyn_states has no entry for h, and the stored state
\* otherwise; in particular it returns None for a handle on which no get,
\* dyn_state or set_dyn_state was called yet, such as one constructed next.
C21_GetDynStateReadOnly ==
    /\ \A h \in held :
           LET r == get_dyn_state(Cache, h)
           IN  /\ r.c.artifacts = artifacts
               /\ r.c.dyn_states = dyn_states
               /\ r.c.dependents = dependents
               /\ r.c.known_builders = known_builders
               /\ ~HasEv(r.c, "init", h)
               /\ (r.ret = -1) <=> (h \notin DOMAIN dyn_states)
               /\ h \in DOMAIN dyn_states => r.ret = dyn_states[h]
    /\ \A h \in FreeIds : get_dyn_state(Cache, h).ret = -1

\* ---- C22 -----------------------------------------------------------------
\* C22: after dyn_state(h), h has a dyn_states entry: the one it had, or, if it
\* had none, one made by init_dyn_state; artifacts and dependents are unchanged.
C22_DynStateEnsures ==
    \A h \in held :
        LET c == dyn_state(Cache, h)
        IN  /\ h \in DOMAIN c.dyn_states
            /\ h \in DOMAIN dyn_states =>
                   c.dyn_states = dyn_states /\ ~HasEv(c, "init", h)
            /\ h \notin DOMAIN dyn_states =>
                   c.dyn_states = Insert(dyn_states, h, init_dyn_state) /\ HasEv(c, "init", h)
            /\ c.artifacts = artifacts
            /\ c.dependents = dependents

\* a stored handle with a stored dependent and a written dynamic state, next to
\* a live handle without dynamic state
C22_Witness ==
    /\ \E h \in held \cap DOMAIN artifacts :
           /\ TransitiveDependents(Cache, h) # {}
           /\ dyn_states[h] # init_dyn_state
    /\ held \ DOMAIN dyn_states # {}

\* ---- C23 -----------------------------------------------------------------
\* every dynamic state but that of x is still there, with its value
KeepsDynStates(c, x) ==
    \A b \in DOMAIN dyn_states \ {x} :
        b \in DOMAIN c.dyn_states /\ c.dyn_states[b] = dyn_states[b]

Destroyed(c) ==
    {b \in DOMAIN artifacts : b \notin DOMAIN c.artifacts \/ c.artifacts[b] # artifacts[b]}

RECURSIVE Cascade(_, _, _)

\* the ids reached from the ids S through the dependents table
Cascade(S, n, dep) ==
    IF n = 0 THEN S
    ELSE Cascade(S \cup UNION {dep[x] : x \in S \cap DOMAIN dep}, n - 1, dep)

CascadeOf(S) == Cascade(S, NumBuilders, dependents)

\* the operations that can destroy no artifact, or any
C24_Others ==
    /\ \A h \in held :
           /\ \A kind \in GetKinds : \A m \in ModesFor(h) :
                  Destroyed(GetFamily(kind, Cache, h, m).c) = {}
           /\ Destroyed(dyn_state(Cache, h)) = {}
           /\ Destroyed(get_dyn_state(Cache, h).c) = {}
           /\ h \notin DOMAIN invalidate(Cache, h).artifacts
           /\ h \notin DOMAIN purge(Cache, h).artifacts
    /\ DOMAIN clear_artifacts(Cache).artifacts = {}
    /\ DOMAIN clear_all(Cache).artifacts = {}
    /\ \A b \in DOMAIN artifacts \ DOMAIN builders :
           b \notin DOMAIN garbage_collection(Cache).artifacts

NoBuild(c) ==
    /\ \A x \in Builders : ~HasEv(c, "call_build", x) /\ ~HasEv(c, "build", x)
    /\ \A x \in DOMAIN c.artifacts : x \in DOMAIN artifacts /\ c.artifacts[x] = artifacts[x]

\* C25: invalidate, purge, clear_artifacts, clear_all, garbage_collection,
\* dyn_state_mut and set_dyn_state invoke no build function and insert no
\* artifact; an artifact they removed is built again by the next get-family call
\* that reaches it, by get on its own handle or as a dependency that the build of
\* another builder resolves.
C25_LazyInvalidation ==
    /\ \A h \in held :
           /\ NoBuild(invalidate(Cache, h))
           /\ NoBuild(purge(Cache, h))
           /\ NoBuild(dyn_state_mut(Cache, h))
           /\ \A v \in DynVals : NoBuild(set_dyn_state(Cache, h, v))
           /\ LET c == Reset(invalidate(Cache, h))
              IN  \A x \in held \ DOMAIN c.artifacts :
                  \A kind \in GetKinds \cup {"get_mut"} : \A m \in OkModes :
                      LET r == GetFamily(kind, c, x, m)
                      IN  \A y \in (DOMAIN artifacts \ DOMAIN c.artifacts) \cap DOMAIN builders :
                              /\ (\E u \in Builders : HasResolve(r.c, u, y)) \/ y = x
                                     => Rebuilt(r.c, y)
                              /\ Rebuilt(r.c, y) => y \in DOMAIN r.c.artifacts
                                                        \/ (kind = "get_mut" /\ y # x)
    /\ NoBuild(clear_artifacts(Cache))
    /\ NoBuild(clear_all(Cache))
    /\ NoBuild(garbage_collection(Cache))

\* a held builder is stored with a stored builder built from it and a written
\* dynamic state, next to a stored builder without strong handle
C25_Witness ==
    /\ \E h \in held \cap DOMAIN artifacts :
           /\ TransitiveDependents(Cache, h) \cap held # {}
           /\ h \in DOMAIN dyn_states /\ dyn_states[h] # init_dyn_state
    /\ DOMAIN artifacts \ DOMAIN builders # {}

\* ---- C26 -----------------------------------------------------------------
\* the state of builder x from the point of view of cache c
Class(c, x) ==
    IF x \in DOMAIN c.artifacts THEN "Known-Built"
    ELSE IF x \in DOMAIN c.dyn_states \/ x \in c.known_builders THEN "Known-NoArtifact"
    ELSE "Unknown"

\* on the way to c, x keeps its state or changes it by one of ways
Moves(c, x, ways) ==
    Class(Cache, x) = Class(c, x) \/ <<Class(Cache, x), Class(c, x)>> \in ways

BuiltToNoArtifact == <<"Known-Built", "Known-NoArtifact">>

ToBuilt == {<<"Unknown", "Known-Built">>, <<"Known-NoArtifact", "Known-Built">>}

ToNoArtifact == {<<"Unknown", "Known-NoArtifact">>, BuiltToNoArtifact}

ToUnknown == {<<"Known-Built", "Unknown">>, <<"Known-NoArtifact", "Unknown">>}

\* the transitions that the operations listed by C26 make, and where they lead
C26_Listed ==
    /\ \A h \in held :
           /\ \A kind \in GetKinds \cup {"get_mut"} : \A m \in ModesFor(h) :
                  LET r == GetFamily(kind, Cache, h, m)
                  IN  /\ r.ok => Class(r.c, h) = "Known-Built"
                      /\ \A x \in Builders :
                             \/ HasEv(r.c, "call_build", x) /\ ~HasEv(r.c, "build", x)
                             \/ Moves(r.c, x,
                                      IF HasEv(r.c, "build", x) THEN ToBuilt
                                      ELSE IF kind = "get_mut" /\ x # h THEN {BuiltToNoArtifact}
                                      ELSE {})
           /\ LET c == invalidate(Cache, h)
              IN  /\ Class(Cache, h) = "Known-Built" => Class(c, h) = "Known-NoArtifact"
                  /\ \A x \in Builders : Moves(c, x, {BuiltToNoArtifact})
           /\ \A v \in DynVals :
                  LET c == set_dyn_state(Cache, h, v)
                  IN  /\ Class(c, h) = "Known-NoArtifact"
                      /\ \A x \in Builders :
                             Moves(c, x, IF x = h THEN ToNoArtifact ELSE {BuiltToNoArtifact})
           /\ LET c == purge(Cache, h)
              IN  /\ Class(c, h) = "Unknown"
                  /\ \A x \in Builders :
                         Moves(c, x, IF x = h THEN ToUnknown ELSE {BuiltToNoArtifact})
           /\ \A x \in Builders : Moves(get_dyn_state(Cache, h).c, x, {})
    /\ LET c == clear_artifacts(Cache)
       IN  \A x \in Builders :
               /\ Class(Cache, x) = "Known-Built" => Class(c, x) = "Known-NoArtifact"
               /\ Moves(c, x, {BuiltToNoArtifact})
    /\ \A x \in Builders : Class(clear_all(Cache), x) = "Unknown"
    /\ LET c == garbage_collection(Cache)
       IN  \A x \in Builders :
               /\ x \in known_builders \ DOMAIN builders => Class(c, x) = "Unknown"
               /\ Moves(c, x, IF x \in DOMAIN builders THEN {BuiltToNoArtifact} ELSE ToUnknown)

\* C26 as claimed: every operation makes only the listed transitions: to
\* Known-Built by a successful get-family call, from Known-Built to
\* Known-NoArtifact by invalidate (also the one in dyn_state_mut), get_mut on a
\* dependency and clear_artifacts, to Known-NoArtifact by set_dyn_state, to
\* Unknown only by purge, clear_all and garbage_collection of an orphan.
C26_StateMachine ==
    /\ C26_Listed
    /\ \A h \in held :
           /\ \A kind \in GetKinds \cup {"get_mut"} : \A m \in ModesFor(h) :
                  LET r == GetFamily(kind, Cache, h, m)
                  IN  \A x \in Builders :
                          HasEv(r.c, "call_build", x) /\ ~HasEv(r.c, "build", x) =>
                              Moves(r.c, x, {})
           /\ \A x \in Builders : Moves(dyn_state(Cache, h), x, {})
           /\ \A x \in Builders : Moves(dyn_state_mut(Cache, h), x, {BuiltToNoArtifact})

\* C26 amended: the listed transitions, and besides them a failed build, dyn_state
\* and dyn_state_mut lead the builder they are about from Unknown to
\* Known-NoArtifact.
C26_StateMachineWithInit ==
    /\ C26_Listed
    /\ \A h \in held :
           /\ \A kind \in GetKinds \cup {"get_mut"} : \A m \in ModesFor(h) :
                  LET r == GetFamily(kind, Cache, h, m)
                  IN  \A x \in Builders :
                          HasEv(r.c, "call_build", x) /\ ~HasEv(r.c, "build", x) =>
                              Moves(r.c, x, {<<"Unknown", "Known-NoArtifact">>})
           /\ \A x \in Builders :
                  Moves(dyn_state(Cache, h), x,
                        IF x = h THEN {<<"Unknown", "Known-NoArtifact">>} ELSE {})
           /\ \A x \in Builders :
                  Moves(dyn_state_mut(Cache, h), x,
                        IF x = h THEN ToNoArtifact ELSE {BuiltToNoArtifact})

\* the three states side by side: a held builder is Unknown, a second one is
\* Known-NoArtifact and a third one Known-Built
C26_Witness ==
    /\ \E h \in held : Class(Cache, h) = "Unknown"
    /\ \E x \in Builders : Class(Cache, x) = "Known-NoArtifact"
    /\ \E x \in Builders : Class(Cache, x) = "Known-Built"

\* ---- C27 -----------------------------------------------------------------
\* the artifacts of x that the doctor's build events of the call report
Reported(c, x) ==
    {c.events[i].a : i \in {j \in DOMAIN c.events : c.events[j].ev = "build" /\ c.events[j].b = x}}

\* one build event for each artifact the call constructed, and for nothing else
BuildEvents(r) ==
    \A x \in Builders :
        /\ CountEv(r.c, "build", x) <= 1
        /\ CountEv(r.c, "build", x) <= CountEv(r.c, "call_build", x)
        /\ IF x \in DOMAIN r.c.artifacts
              /\ (x \in DOMAIN artifacts => r.c.artifacts[x] # artifacts[x])
           THEN Reported(r.c, x) = {r.c.artifacts[x].inst}
           ELSE Reported(r.c, x) = {}
        /\ x \in DOMAIN artifacts => CountEv(r.c, "build", x) = 0
        /\ (x = r.h /\ ~r.ok) => CountEv(r.c, "build", x) = 0

\* C27: a get-family call emits the doctor's build(builder, artifact) event once
\* for each artifact it constructs and stores, with that artifact, and emits none
\* for a builder whose artifact was stored (cache hit) or whose build failed; the
\* first get after an invalidation, a clear_artifacts or a clear_all emits it
\* again.
C27_DoctorBuild ==
    \A h \in held :
        /\ \A kind \in GetKinds \cup {"get_mut"} : \A m \in ModesFor(h) :
               /\ LET r == GetFamily(kind, Cache, h, m)
                  IN  BuildEvents([c |-> r.c, ok |-> r.ok, h |-> h])
               /\ LET r == GetFamily(kind, Cache, h, Again(m))
                  IN  BuildEvents([c |-> r.c, ok |-> r.ok, h |-> h])
        /\ \A m \in OkModes :
               /\ CountEv(get(Reset(invalidate(Cache, h)), h, m).c, "build", h) = 1
               /\ CountEv(get(Reset(clear_artifacts(Cache)), h, m).c, "build", h) = 1
               /\ CountEv(get(Reset(clear_all(Cache)), h, m).c, "build", h) = 1

\* a held builder without artifact depends on a stored one, so that a get on it
\* constructs one artifact and hits the cache for the other
C27_Witness ==
    \E h \in held \ DOMAIN artifacts :
        /\ Range(builders[h]) # {}
        /\ Range(builders[h]) \subseteq DOMAIN artifacts
        /\ h \in known_builders

\* ---- C28 -----------------------------------------------------------------
\* the doctor heard of one invalidation, that of h, and of no clear
OnlyInvalidate(c, h) ==
    /\ CountEv(c, "invalidate", h) = 1
    /\ \A x \in Builders \ {h} : ~HasEv(c, "invalidate", x)
    /\ ~HasEv(c, "clear", 0)

\* the doctor heard of no invalidation
NoInvalidate(c) == \A x \in Builders : ~HasEv(c, "invalidate", x)

\* C28: the doctor's invalidate(b) event is emitted once by each call of
\* invalidate with b as its argument (the user's, and the one that dyn_state_mut
\* and purge make for their own argument) and by nothing else: not for the
\* dependents that the cascade of invalidate, get_mut or garbage_collection
\* removes; an invalidation emits no clear event, also when it empties the store.
C28_DoctorInvalidate ==
    /\ \A h \in held :
           /\ OnlyInvalidate(invalidate(Cache, h), h)
           /\ OnlyInvalidate(dyn_state_mut(Cache, h), h)
           /\ OnlyInvalidate(purge(Cache, h), h)
           /\ \A kind \in GetKinds \cup {"get_mut"} : \A m \in ModesFor(h) :
                  LET c == GetFamily(kind, Cache, h, m).c
                  IN  NoInvalidate(c) /\ ~HasEv(c, "clear", 0)
           /\ NoInvalidate(dyn_state(Cache, h)) /\ ~HasEv(dyn_state(Cache, h), "clear", 0)
    /\ NoInvalidate(clear_artifacts(Cache)) /\ ~HasEv(clear_artifacts(Cache), "clear", 0)
    /\ NoInvalidate(garbage_collection(Cache))
    /\ ~HasEv(garbage_collection(Cache), "clear", 0)
    /\ NoInvalidate(clear_all(Cache)) /\ CountEv(clear_all(Cache), "clear", 0) = 1

\* invalidating a held builder removes every stored artifact, its own and at
\* least one that the cascade reaches
C28_Witness ==
    \E h \in held \cap DOMAIN artifacts :
        LET c == invalidate(Cache, h)
        IN  /\ DOMAIN c.artifacts = {}
            /\ DOMAIN artifacts \ {h} # {}

\* ---- C29 -----------------------------------------------------------------
\* every stored artifact was built from artifacts that are stored as they were
NoStale(c) ==
    \A u \in DOMAIN c.artifacts : \A e \in c.artifacts[u].used :
        e[1] \in DOMAIN c.artifacts /\ c.artifacts[e[1]].inst = e[2]

\* C29: in every reachable state, every dependency p that the build of a stored
\* artifact of u resolved successfully has a stored artifact, the instance that
\* u's build received; and once get_mut has handed out p's artifact, no stored
\* artifact is one that was built from p.
C29_NoStaleArtifact ==
    /\ NoStale(Cache)
    /\ \A h \in held : \A m \in ModesFor(h) :
           LET c == get_mut(Cache, h, m).c
           IN  NoStale(c) /\ \A u \in DOMAIN c.artifacts : h \notin UsedBy(c, u)

\* a stored artifact built from a held builder's stored artifact, which in turn
\* was built from a third one
C29_Witness ==
    \E u \in DOMAIN artifacts : \E e \in artifacts[u].used :
        /\ e[1] \in held \cap DOMAIN artifacts
        /\ artifacts[e[1]].inst = e[2]
        /\ artifacts[e[1]].used # {}

\* ---- C30 -----------------------------------------------------------------
\* the members of dependents[p], none if there is no entry
DependentsOf(c, p) == IF p \in DOMAIN c.dependents THEN c.dependents[p] ELSE {}

\* every stored artifact's builder is a dependent of what it was built from
Covered(c) ==
    \A u \in DOMAIN c.artifacts : \A p \in UsedBy(c, u) : u \in DependentsOf(c, p)

\* C30 as claimed: dependents[p] is exactly the set of builders that resolved p
\* during their most recent build: every stored artifact's builder is in
\* dependents[p] for each p it was built from, and a member of dependents[p]
\* with a stored artifact was built from p.
C30_DependentsLatest ==
    /\ Covered(Cache)
    /\ \A p \in DOMAIN dependents : \A u \in dependents[p] \cap DOMAIN artifacts :
           p \in UsedBy(Cache, u)

\* C30 amended: dependents[p] contains every builder whose stored artifact was
\* built by resolving p, and may contain more.  A get-family call adds to
\* dependents[p] exactly the builders that resolve p during the call and removes
\* nothing; no other operation adds a member; invalidate(h) removes the entries
\* of h and of the builders reached from h through the table and leaves every
\* other entry as it is, so that a builder that was invalidated and rebuilt
\* without resolving p stays in dependents[p].
C30_DependentsCover ==
    /\ Covered(Cache)
    /\ \A h \in held :
           /\ \A kind \in GetKinds : \A m \in ModesFor(h) :
                  LET c == GetFamily(kind, Cache, h, m).c
                  IN  /\ Covered(c)
                      /\ \A p \in Builders :
                             DependentsOf(c, p) =
                                 DependentsOf(Cache, p) \cup
                                     {u \in Builders : HasResolve(c, u, p)}
           /\ LET c == invalidate(Cache, h)
              IN  \A p \in Builders :
                      DependentsOf(c, p) =
                          IF p \in CascadeOf({h}) THEN {} ELSE DependentsOf(Cache, p)
           /\ \A p \in Builders :
                  /\ DependentsOf(purge(Cache, h), p) \subseteq DependentsOf(Cache, p)
                  /\ DependentsOf(dyn_state_mut(Cache, h), p) \subseteq DependentsOf(Cache, p)
                  /\ DependentsOf(dyn_state(Cache, h), p) = DependentsOf(Cache, p)
                  /\ \A m \in ModesFor(h) :
                         DependentsOf(get_mut(Cache, h, m).c, p) \subseteq
                             DependentsOf(Cache, p) \cup
                                 {u \in Builders : HasResolve(get_mut(Cache, h, m).c, u, p)}
           /\ \A p \in Range(builders[h]) :
                  (h \in DependentsOf(Cache, p) /\ p \notin CascadeOf({h})) =>
                      LET c == get(Reset(invalidate(Cache, h)), h, [x \in Builders |-> "skip"])
                      IN  c.ok /\ h \in DOMAIN c.c.artifacts /\ ~HasResolve(c.c, h, p)
                               /\ h \in DependentsOf(c.c, p)
    /\ \A p \in Builders :
           /\ DependentsOf(clear_artifacts(Cache), p) = {}
           /\ DependentsOf(clear_all(Cache), p) = {}
           /\ DependentsOf(garbage_collection(Cache), p) \subseteq DependentsOf(Cache, p)

\* a live builder holding a handle of p is stored, is a member of dependents[p],
\* and its stored artifact was built without resolving p
C30_Witness ==
    \E u \in held \cap DOMAIN artifacts : \E p \in Range(builders[u]) :
        /\ u \in DependentsOf(Cache, p)
        /\ p \notin UsedBy(Cache, u)
        /\ p \in DOMAIN artifacts

\* ---- C31 -----------------------------------------------------------------
\* C31: after garbage_collection has reclaimed the tracked builders without
\* strong handle, no builder whose stored artifact was built from one of them,
\* directly or through others, has a stored artifact; and every builder with a
\* strong handle that the cascade reaches keeps its dynamic state and its
\* known_builders entry.
C31_GcCascade ==
    LET c == garbage_collection(Cache)
    IN  /\ \A p \in Orphans :
               /\ p \notin DOMAIN c.artifacts
               /\ \A u \in TransitiveDependents(Cache, p) : u \notin DOMAIN c.artifacts
        /\ \A u \in CascadeOf(Orphans) \cap DOMAIN builders :
               /\ u \notin DOMAIN c.artifacts
               /\ u \in DOMAIN dyn_states =>
                      u \in DOMAIN c.dyn_states /\ c.dyn_states[u] = dyn_states[u]
               /\ u \in known_builders => u \in c.known_builders

\* a stored orphan with a stored artifact built from it, and with a stored
\* builder that has a strong handle among those its cascade reaches
C31_Witness ==
    \E p \in Orphans \cap DOMAIN artifacts :
        /\ TransitiveDependents(Cache, p) # {}
        /\ \E u \in CascadeOf({p}) \cap DOMAIN builders :
               u \in DOMAIN artifacts /\ u \in known_builders /\ u \in DOMAIN dyn_states

\* ---- C32 -----------------------------------------------------------------
\* the positions in the call's log of the events e of builder x
At(c, e, x) == {i \in DOMAIN c.events : c.events[i].ev = e /\ c.events[i].b = x}

\* the builders whose build function ran in the call and returned an error
Failed(c) == {x \in Builders : HasEv(c, "call_build", x) /\ ~HasEv(c, "build", x)}

\* the artifact of x is inserted after x's build function has run, with all its
\* resolves, and only if it succeeded
InsertedLast(r, h) ==
    /\ \A x \in Builders :
           /\ HasEv(r.c, "call_build", x) => x \notin DOMAIN artifacts
           /\ \A j \in At(r.c, "build", x) :
                  /\ \E i \in At(r.c, "call_build", x) : i < j
                  /\ \A i \in At(r.c, "resolve", x) : i < j
                  /\ x \in DOMAIN r.c.artifacts /\ r.c.artifacts[x].inst = r.c.events[j].a
           /\ x \in DOMAIN r.c.artifacts \ DOMAIN artifacts => HasEv(r.c, "build", x)
           /\ x \in Failed(r.c) => x \notin DOMAIN r.c.artifacts
    /\ ~r.ok => h \in Failed(r.c)

\* C32 as claimed: the artifact of u is inserted only after u's build has
\* returned successfully, and until then nothing is written to the cache on
\* behalf of u: a build of u that fails leaves no known_builders entry, no
\* dynamic state and no membership in a dependents set that u did not have.
C32_CommitAfterBuild ==
    \A h \in held : \A kind \in GetKinds \cup {"get_mut"} : \A m \in ModesFor(h) :
        LET r == GetFamily(kind, Cache, h, m)
        IN  /\ InsertedLast(r, h)
            /\ \A x \in Failed(r.c) :
                   /\ x \in r.c.known_builders => x \in known_builders
                   /\ x \in DOMAIN r.c.dyn_states => x \in DOMAIN dyn_states
                   /\ \A p \in Builders :
                          x \in DependentsOf(r.c, p) => x \in DependentsOf(Cache, p)

\* C32 amended: the artifact of u is inserted only after u's build has returned
\* successfully, and throughout the build artifacts has no entry for u; before
\* the build returns the cache writes on behalf of u its known_builders entry,
\* its initial dynamic state if it had none, and u's membership in dependents[p]
\* for every p it resolves, and these stay when the build fails.
C32_ArtifactAfterBuild ==
    \A h \in held : \A kind \in GetKinds \cup {"get_mut"} : \A m \in ModesFor(h) :
        LET r == GetFamily(kind, Cache, h, m)
        IN  /\ InsertedLast(r, h)
            /\ \A x \in Failed(r.c) :
                   /\ x \in r.c.known_builders
                   /\ x \in DOMAIN r.c.dyn_states
                   /\ x \notin DOMAIN dyn_states => r.c.dyn_states[x] = init_dyn_state
                   /\ \A p \in Builders :
                          x \in DependentsOf(r.c, p) <=>
                              x \in DependentsOf(Cache, p) \/ HasResolve(r.c, x, p)

\* a held builder the cache has not heard of, with a dependency without artifact
C32_Witness ==
    \E h \in held \ (known_builders \cup DOMAIN dyn_states) :
        /\ Range(builders[h]) # {}
        /\ Range(builders[h]) \cap DOMAIN artifacts = {}
        /\ \A p \in Range(builders[h]) : h \notin DependentsOf(Cache, p)

\* ---- C33 -----------------------------------------------------------------
\* Builders with up to MaxWide dependencies, every address allocated and held.
MaxWide == 2

WideGraphs ==
    {g \in [Builders -> {<<>>} \cup UNION {[1..n -> Builders] : n \in 1..MaxWide}] :
        \A b \in Builders : Range(g[b]) \subseteq 1..(b - 1)}

InitWide ==
    /\ builders \in WideGraphs
    /\ held = Builders
    /\ artifacts = new.artifacts
    /\ dyn_states = new.dyn_states
    /\ dependents = new.dependents
    /\ known_builders = new.known_builders
    /\ rt = Idle

NextWide ==
    \/ \E b \in Builders : \E m \in ModesFor(b) : Get(b, m)
    \/ \E b \in Builders : \E m \in ModesFor(b) : GetMut(b, m)
    \/ \E b \in Builders : Invalidate(b)

SpecWide == InitWide /\ [][NextWide]_vars

\* the handles that x resolved in the call, in the order of the resolve events
ResolvesOf(c, x) ==
    LET e == SelectSeq(c.events, LAMBDA y : y.ev = "resolve" /\ y.b = x)
    IN  [i \in DOMAIN e |-> e[i].a]

IsPrefix(s, t) == Len(s) <= Len(t) /\ s = SubSeq(t, 1, Len(s))

\* the order of the events of a get-family call r with build behaviours m (a
\* builder whose build failed may be built a second time in the call)
InCallOrder(r, m) ==
    \A x \in Builders :
        /\ CountEv(r.c, "call_build", x) = 1 => IsPrefix(ResolvesOf(r.c, x), Resolved(x, m))
        /\ Range(ResolvesOf(r.c, x)) \subseteq Range(Resolved(x, m))
        /\ HasEv(r.c, "build", x) => ResolvesOf(r.c, x) = Resolved(x, m)
        /\ ~HasEv(r.c, "call_build", x) => ResolvesOf(r.c, x) = <<>>
        /\ \A p \in Builders :
               /\ p \in Range(ResolvesOf(r.c, x)) => x \in DependentsOf(r.c, p)
               /\ x \in DependentsOf(r.c, p) =>
                      x \in DependentsOf(Cache, p) \/ p \in Range(ResolvesOf(r.c, x))
        /\ \A j \in At(r.c, "build", x) :
               /\ \A i \in At(r.c, "call_build", x) : i < j
               /\ \A p \in Range(ResolvesOf(r.c, x)) :
                      \A k \in At(r.c, "call_build", p) \cup At(r.c, "build", p) : k < j

\* C33: in a get-family call, the resolve events of each builder that is built
\* come in the order in which its build function resolves its handles, one event
\* for every resolve call, also for a dependency whose artifact is stored and for
\* one resolved before; the edges recorded are those of the resolves made, so a
\* build cut short has recorded the first edge and not the second; and the build
\* event of every dependency built on the way precedes the builder's own.
C33_EventOrder ==
    \A h \in held : \A kind \in GetKinds \cup {"get_mut"} : \A m \in ModesFor(h) :
        /\ InCallOrder(GetFamily(kind, Cache, h, m), m)
        /\ InCallOrder(GetFamily(kind, Cache, h, Again(m)), Again(m))

\* a held builder without artifact whose build resolves two different handles,
\* the first with a stored artifact, the second without
C33_Witness ==
    \E h \in held \ DOMAIN artifacts :
        /\ Len(builders[h]) = 2
        /\ builders[h][1] # builders[h][2]
        /\ builders[h][1] \in DOMAIN artifacts
        /\ builders[h][2] \notin DOMAIN artifacts

\* ---- C34 -----------------------------------------------------------------
\* HashSet and HashMap iterate in an unspecified order: the caches that the
\* cascade can end in, over all orders in which the members are enumerated.
RECURSIVE invalidate_any_orders(_, _), invalidate_each_orders(_, _), collect_orders(_, _)

\* mutant: the loop ends at the first member that has no artifact
invalidate_each_Breaks(c, set) ==
    IF set = {} THEN {c}
    ELSE UNION {IF dep \notin DOMAIN c.artifacts THEN {c}
                ELSE UNION {invalidate_each_orders(c2, set \ {dep}) :
                                c2 \in invalidate_any_orders(c, dep)} : dep \in set}

invalidate_each_orders(c, set) ==
    IF set = {} THEN {c}
    ELSE UNION {UNION {invalidate_each_orders(c2, set \ {dep}) :
                           c2 \in invalidate_any_orders(c, dep)} : dep \in set}

invalidate_any_orders(c, b) ==
    LET cs == IF b \in DOMAIN c.dependents
              THEN invalidate_each_orders([c EXCEPT !.dependents = Remove(@, b)],
                                          c.dependents[b])
              ELSE {c}
    IN  {[c1 EXCEPT !.artifacts = Remove(@, b)] : c1 \in cs}

invalidate_orders(c, b) ==
    {cleanup_unused_weak_refs([c1 EXCEPT !.events = Append(@, Ev("invalidate", b, 0))]) :
         c1 \in invalidate_any_orders(c, b)}

collect_orders(c, ids) ==
    IF ids = {} THEN {c}
    ELSE UNION {UNION {collect_orders([c1 EXCEPT !.dyn_states = Remove(@, bid),
                                                 !.known_builders = @ \ {bid}],
                                      ids \ {bid}) :
                           c1 \in invalidate_any_orders(c, bid)} : bid \in ids}

garbage_collection_orders(c) == collect_orders(c, unreachable_builder_ids(c))

Tables(c) == <<c.artifacts, c.dyn_states, c.dependents, c.known_builders>>

\* C34: whatever the order in which the members of each dependents set and the
\* unreachable ids are enumerated, invalidate(p), and likewise
\* garbage_collection, ends with the same four tables.
C34_CascadeDeterminism ==
    /\ \A p \in held :
           {Tables(c) : c \in invalidate_orders(Cache, p)} = {Tables(invalidate(Cache, p))}
    /\ {Tables(c) : c \in garbage_collection_orders(Cache)} =
           {Tables(garbage_collection(Cache))}

\* a held builder with two members in its dependents set, one of them stored and
\* one not, and two tracked builders without strong handle
C34_Witness ==
    /\ \E p \in held \cap DOMAIN dependents :
           /\ dependents[p] \cap DOMAIN artifacts # {}
           /\ dependents[p] \ DOMAIN artifacts # {}
    /\ Cardinality(Orphans) >= 2

\* ---- C35 -----------------------------------------------------------------
\* C35: every key of known_builders is a key of dyn_states; so
\* cleanup_unused_weak_refs removes nothing, and invalidate, dyn_state_mut,
\* get_mut and clear_artifacts (as the get-family calls and dyn_state) never
\* lower number_of_known_builders; purge, clear_all and garbage_collection lower
\* it, by the entries they are there to remove.
C35_KnownHaveDynState ==
    /\ known_builders \subseteq DOMAIN dyn_states
    /\ cleanup_unused_weak_refs(Cache) = Cache
    /\ \A h \in held :
           /\ known_builders \subseteq invalidate(Cache, h).known_builders
           /\ known_builders \subseteq dyn_state_mut(Cache, h).known_builders
           /\ known_builders \subseteq dyn_state(Cache, h).known_builders
           /\ \A kind \in GetKinds \cup {"get_mut"} : \A m \in ModesFor(h) :
                  known_builders \subseteq GetFamily(kind, Cache, h, m).c.known_builders
           /\ purge(Cache, h).known_builders = known_builders \ {h}
    /\ clear_artifacts(Cache).known_builders = known_builders
    /\ clear_all(Cache).known_builders = {}
    /\ garbage_collection(Cache).known_builders = known_builders \cap DOMAIN builders

\* a tracked builder that has lost its artifact, next to a tracked builder
\* without strong handle
C35_Witness ==
    /\ \E h \in held \cap known_builders : h \notin DOMAIN artifacts
    /\ \E b \in Orphans : b \in DOMAIN artifacts
    /\ number_of_known_builders(Cache) = NumBuilders

\* ---- C36 -----------------------------------------------------------------
\* invalidate_any step by step, on an arbitrary dependents table.  rt holds the
\* run: script is the call stack (one frame per running invalidate_any with the
\* members still to visit), log the ids whose entry was expanded, pos the id the
\* cascade was started on and last the table it was started with.
MaxStack == 4

AnyDependents == UNION {[D -> SUBSET Builders] : D \in SUBSET Builders}

InitCascade ==
    /\ builders = [b \in Builders |-> <<>>]
    /\ held = Builders
    /\ artifacts = [b \in Builders |-> [inst |-> <<b, 1>>, used |-> {}]]
    /\ dyn_states = [b \in Builders |-> init_dyn_state]
    /\ known_builders = Builders
    /\ dependents \in AnyDependents
    /\ \E p \in Builders :
           rt = [phase |-> "call", script |-> <<>>, log |-> <<>>, pos |-> p, last |-> dependents]

\* mutant: the entry is left in the table while its members are visited
invalidate_any_call_KeepsEntry(st, b) ==
    IF b \in DOMAIN st.dependents
    THEN [st EXCEPT !.script = Append(@, [b |-> b, set |-> st.dependents[b]]),
                    !.log = Append(@, b)]
    ELSE [st EXCEPT !.artifacts = Remove(@, b)]

\* a call of invalidate_any(b): `if let Some(set) = self.dependents.remove(b)`
\* opens the loop over set; without an entry the call removes the artifact of b
\* and returns
invalidate_any_call(st, b) ==
    IF b \in DOMAIN st.dependents
    THEN [st EXCEPT !.dependents = Remove(@, b),
                    !.script = Append(@, [b |-> b, set |-> st.dependents[b]]),
                    !.log = Append(@, b)]
    ELSE [st EXCEPT !.artifacts = Remove(@, b)]

Running(stack) ==
    [dependents |-> dependents, artifacts |-> artifacts, script |-> stack, log |-> rt.log]

CommitCascade(st) ==
    /\ dependents' = st.dependents
    /\ artifacts' = st.artifacts
    /\ rt' = [rt EXCEPT !.script = st.script, !.log = st.log,
                        !.phase = IF st.script = <<>> THEN "done" ELSE "run"]
    /\ UNCHANGED <<builders, held, dyn_states, known_builders>>

\* invalidate calls invalidate_any(p)
CascadeStart ==
    /\ rt.phase = "call"
    /\ CommitCascade(invalidate_any_call(Running(rt.script), rt.pos))

\* `for dep in set { self.invalidate_any(&dep) }`: the next member, in any order
CascadeVisit ==
    /\ rt.phase = "run"
    /\ Len(rt.script) < MaxStack
    /\ LET n == Len(rt.script)
       IN  \E dep \in rt.script[n].set :
               CommitCascade(invalidate_any_call(
                   Running([rt.script EXCEPT ![n].set = @ \ {dep}]), dep))

\* the loop is over: `self.artifacts.remove(builder)`, and the call returns
CascadeReturn ==
    /\ rt.phase = "run"
    /\ LET n == Len(rt.script)
       IN  /\ rt.script[n].set = {}
           /\ CommitCascade([Running(SubSeq(rt.script, 1, n - 1))
                                EXCEPT !.artifacts = Remove(@, rt.script[n].b)])

NextCascade == CascadeStart \/ CascadeVisit \/ CascadeReturn

SpecCascade == InitCascade /\ [][NextCascade]_vars /\ WF_vars(NextCascade)

\* the cascade started on rt.pos with the table rt.last has a cycle to run into
Cyclic(tab, p) ==
    \E x \in Cascade({p}, NumBuilders, tab) \cap DOMAIN tab :
        x \in Cascade(tab[x], NumBuilders, tab)

NoDuplicates(s) == \A i, j \in DOMAIN s : i # j => s[i] # s[j]

\* what the cascade leaves when it has returned
CascadeDone ==
    /\ rt.phase = "done"
    /\ rt.script = <<>>
    /\ DOMAIN artifacts = Builders \ Cascade({rt.pos}, NumBuilders, rt.last)
    /\ DOMAIN dependents = DOMAIN rt.last \ Cascade({rt.pos}, NumBuilders, rt.last)

\* C36: on every dependents table, with cycles and self-loops or without,
\* invalidate_any(p) returns; no id's entry is expanded twice, the call stack
\* never holds more frames than there are ids, and when the cascade has returned
\* exactly the ids reached from p have lost their artifact and their entry.
C36_CascadeTerminates ==
    /\ [](NoDuplicates(rt.log) /\ Len(rt.script) <= NumBuilders)
    /\ <>CascadeDone

\* a cascade over a table with a cycle has returned after expanding two entries
C36_Witness ==
    /\ rt.phase = "done"
    /\ Cyclic(rt.last, rt.pos)
    /\ Len(rt.log) >= 2

\* ---- C37 -----------------------------------------------------------------
\* C37: a builder allocated next, at whatever address is free, finds nothing of
\* an earlier builder under its id: no artifact for a get-family call to return
\* and no dynamic state for its build to run against, so that its dynamic state
\* starts from init_dyn_state; and garbage_collection keeps the known_builders
\* entry and the dynamic state of every builder with a strong handle.
C37_NoLeakOnReuse ==
    /\ \A b \in FreeIds :
           /\ lookup(Cache, b) = None
           /\ lookup_ref(Cache, b) = None
           /\ ensure_dyn_state(Cache, b).dyn_states[b] = init_dyn_state
    /\ LET c == garbage_collection(Cache)
       IN  \A b \in DOMAIN builders \cap known_builders :
               /\ b \in c.known_builders
               /\ b \in DOMAIN c.dyn_states /\ c.dyn_states[b] = dyn_states[b]

\* ---- C38 -----------------------------------------------------------------
\* C38: get, get_ref and get_cloned on a handle whose artifact is stored return
\* Ok with the stored artifact and leave the cache as it was: the four tables
\* are unchanged and no event is logged, so no build function and no
\* init_dyn_state was invoked and the doctor heard nothing.
C38_HitIsEffectFree ==
    \A h \in held \cap DOMAIN artifacts : \A kind \in GetKinds : \A m \in UniformModes :
        LET r == GetFamily(kind, Cache, h, m)
        IN  /\ r.ok
            /\ r.ret = artifacts[h].inst
            /\ Tables(r.c) = Tables(Cache)
            /\ r.c.events = <<>>

\* a stored held builder that is a member of a dependents set and has members in
\* its own, with a dependency whose dynamic state was written
C38_Witness ==
    \E h \in held \cap DOMAIN artifacts :
        /\ DependentsOf(Cache, h) \cap DOMAIN artifacts # {}
        /\ \E p \in Range(builders[h]) :
               h \in DependentsOf(Cache, p) /\ dyn_states[p] # init_dyn_state

\* ---- C39 -----------------------------------------------------------------
\* the id x is a key of no table of c and a member of no dependents set
NoTrace(c, x) ==
    /\ x \notin DOMAIN c.artifacts
    /\ x \notin DOMAIN c.dyn_states
    /\ x \notin c.known_builders
    /\ x \notin DOMAIN c.dependents
    /\ \A p \in Builders : x \notin DependentsOf(c, p)

\* C39: after purge(h) the id of h, and after garbage_collection the id of
\* every tracked builder without strong handle, is a key of none of the four
\* tables and a member of no dependents set.
C39_NoTraceLeft ==
    /\ \A h \in held : NoTrace(purge(Cache, h), h)
    /\ \A b \in Orphans : NoTrace(garbage_collection(Cache), b)

\* ---- C40 -----------------------------------------------------------------
\* init_dyn_state ran on the way to c only for builders without dynamic state,
\* once for each, and every dynamic state there was is as it was
InitOnlyAbsent(c) ==
    \A x \in Builders :
        /\ CountEv(c, "init", x) <= 1
        /\ HasEv(c, "init", x) => x \notin DOMAIN dyn_states
        /\ x \in DOMAIN c.dyn_states \ DOMAIN dyn_states =>
               HasEv(c, "init", x) /\ c.dyn_states[x] = init_dyn_state
        /\ x \in DOMAIN dyn_states =>
               x \in DOMAIN c.dyn_states /\ c.dyn_states[x] = dyn_states[x]

====
